---- MODULE Spec2Model ----
(***************************************************************************)
(* Subscription polling and delivery engine of matrix-bot: the RSS and     *)
(* Github interval functions, the Github client pool and its rate-limit    *)
(* state, the subscription collections with their find-before-insert       *)
(* upsert, and the Enable / Disable commands that edit them.                *)
(*                                                                         *)
(* Time is counted in ticks; TicksPerSecond ticks make one second.         *)
(* OffsetDateTime values (clock, latest_update, allowed_request_time) are  *)
(* ticks; feed entry dates and notification updated_at are whole seconds.  *)
(***************************************************************************)
EXTENDS Integers, Sequences, FiniteSets, TLC

\* ---------------------------------------------------------------- bounds
MaxTime == 4
TicksPerSecond == 2
MaxFeed == 2
MaxNotif == 2
MaxCycles == 2
MaxEvents == 2
MaxCommands == 2
MaxHandlers == 2
MaxRevision == 4
MaxMessage == 6

\* ----------------------------------------------------------- value sets
Kinds == {"rss", "github"}
Rooms == {"r1", "r2"}
Urls == {"feedA"}
GithubUsers == {"alice"}
Tokens == {"tok1", "tok2"}
Senders == {"admin", "guest"}
Keys(k) == IF k = "rss" THEN Urls ELSE GithubUsers
TokensOf(k) == IF k = "rss" THEN {"-"} ELSE Tokens
None == 0 - 1
Seconds == 0..(MaxTime \div TicksPerSecond)
PollIntervals == {None, 1}
\* Feed entries: undated, published only, updated only, and updated a second
\* after being published.
Dates == Seconds \ {0}
Entries ==
  {[published |-> None, updated |-> None]}
    \cup {[published |-> s, updated |-> None] : s \in Dates}
    \cup {[published |-> None, updated |-> s] : s \in Dates}
    \cup {[published |-> s, updated |-> s + 1] : s \in Dates \ {MaxTime \div TicksPerSecond}}
NoDoc == [id |-> 0]
Idle == [kind |-> "none", pc |-> "idle"]
NoClient == [token |-> "-", allowed_request_time |-> None]
NoSignal == [at |-> 0, seconds |-> 0, token |-> "-"]
\* The timers left out: a tick of either kind may arrive at any moment.
NoTimers == [created |-> None]

\* ------------------------------------------------------- pure functions
Max(a, b) == IF a >= b THEN a ELSE b

RECURSIVE SetMax(_)
SetMax(S) ==
  IF S = {} THEN None
  ELSE LET x == CHOOSE y \in S : TRUE IN Max(x, SetMax(S \ {x}))

\* OffsetDateTime::unix_timestamp / DateTime::timestamp: whole seconds.
unix_timestamp(t) == t \div TicksPerSecond

\* OffsetDateTime::from_unix_timestamp.
from_unix_timestamp(s) == s * TicksPerSecond

\* The date of an entry, were the updated date to come first.
effective_timestamp_updated_first(e) ==
  IF e.updated # None THEN e.updated ELSE e.published

\* entry.published.as_ref().or(entry.updated.as_ref())
effective_timestamp(e) == IF e.published # None THEN e.published ELSE e.updated

\* The filter closure of send_feed_messages, were it to compare with >=.
is_new_entry_inclusive(e, latest_update) ==
  /\ effective_timestamp(e) # None
  /\ effective_timestamp(e) >= unix_timestamp(latest_update)

\* The filter closure of send_feed_messages.
is_new_entry(e, latest_update) ==
  /\ effective_timestamp(e) # None
  /\ effective_timestamp(e) > unix_timestamp(latest_update)

new_entries(feed, latest_update) ==
  SelectSeq(feed, LAMBDA e : is_new_entry(e, latest_update))

RECURSIVE fold_latest(_, _)
fold_latest(feed, maximum) ==
  IF feed = << >> THEN maximum
  ELSE fold_latest(Tail(feed),
         IF effective_timestamp(Head(feed)) = None THEN maximum
         ELSE Max(effective_timestamp(Head(feed)), maximum))

\* get_latest_entry, were it to take the date of the first entry of the feed.
get_first_entry(feed) ==
  from_unix_timestamp(
    IF feed = << >> \/ effective_timestamp(Head(feed)) = None THEN 0
    ELSE effective_timestamp(Head(feed)))

get_latest_entry(feed) == from_unix_timestamp(fold_latest(feed, 0))

\* Github::next_request_allowed, were it to ignore allowed_request_time.
next_request_always_allowed(client, now) == TRUE

\* Github::next_request_allowed
next_request_allowed(client, now) == client.allowed_request_time < now

\* The notifications endpoint with ?since=: what was updated after `since`.
updated_after(inbox, since) ==
  SelectSeq(inbox, LAMBDA n : from_unix_timestamp(n.updated_at) > since)

\* The since argument of github_client.notifications(..).
fetch_since(subscription) == subscription.latest_update

\* latest_update, were it the time of the latest notification received.
github_latest_notification(now, notifications) ==
  IF notifications = << >> THEN now
  ELSE from_unix_timestamp(
         SetMax({notifications[i].updated_at : i \in 1..Len(notifications)}))

\* The value written to latest_update after a Github poll.
github_new_latest_update(now, notifications) == now

\* allowed_request_time, were the wait counted from the epoch.
wait_from_epoch(now, poll_interval) == poll_interval * TicksPerSecond

\* allowed_request_time after a response carrying X-Poll-Interval.
wait_until(now, poll_interval) == now + poll_interval * TicksPerSecond

\* config.intervals.rss / config.intervals.github: one second each.
period(k) == TicksPerSecond

\* interval(period): the first tick completes at once. late[k] counts the
\* whole periods by which the last tick of the kind was served late.
new_intervals(now) ==
  [created |-> now, due |-> [k \in Kinds |-> now], late |-> [k \in Kinds |-> 0]]

\* A timer that queued every missed tick (MissedTickBehavior::Burst).
next_timeout_burst(timeout, now, p) == timeout + p

\* MissedTickBehavior::Skip: the next multiple of the period after now.
next_timeout(timeout, now, p) == now + p - ((now - timeout) % p)

\* The check of the sender, were everybody in the room let through.
is_mod_anyone(sender) == TRUE

\* context.config.access.admins / mods contain the sender.
is_mod(sender) == sender = "admin"

\* Documents of a collection in document-id order (all_async).
RECURSIVE all_async(_)
all_async(docs) ==
  IF docs = {} THEN << >>
  ELSE LET d == CHOOSE x \in docs : \A y \in docs : x.id <= y.id
       IN <<d>> \o all_async(docs \ {d})

\* for_room(..).into_values().find(..): first document of the room with the key.
find(docs, room, key) ==
  LET hits == {d \in docs : d.room = room /\ d.key = key}
  IN IF hits = {} THEN NoDoc
     ELSE CHOOSE x \in hits : \A y \in hits : x.id <= y.id

\* A stored document still carries the header (id, revision) the caller holds.
\* Revisions are counted modulo MaxRevision.
header_matches(docs, doc) == \E d \in docs : d.id = doc.id /\ d.rev = doc.rev

update_async(docs, doc, latest_update, token) ==
  {d \in docs : d.id # doc.id}
    \cup {[doc EXCEPT !.latest_update = latest_update, !.token = token,
                      !.rev = (doc.rev + 1) % MaxRevision]}

delete_async(docs, doc) == {d \in docs : d.id # doc.id}

push_into_async(docs, id, room, key, token, latest_update) ==
  docs \cup {[id |-> id, room |-> room, key |-> key, token |-> token,
              latest_update |-> latest_update, rev |-> 0]}

\* ---------------------------------------------------------------- state
\* ------------------------------------------------------- parse_arguments
\* A message is a sequence of characters; an argument is one too.
Chars == {"a", " ", "'", "\""}

Messages == UNION {[1..n -> Chars] : n \in 0..MaxMessage}

NoMessage == [message |-> << >>, arguments |-> << >>, done |-> FALSE]

\* str::split(' '): the pieces between the spaces, empty ones included.
RECURSIVE split(_)
split(message) ==
  IF \A i \in 1..Len(message) : message[i] # " "
  THEN <<message>>
  ELSE LET i == CHOOSE i \in 1..Len(message) :
                  /\ message[i] = " "
                  /\ \A j \in 1..(i - 1) : message[j] # " "
       IN <<SubSeq(message, 1, i - 1)>>
            \o split(SubSeq(message, i + 1, Len(message)))

\* str::strip_prefix / strip_suffix with a char: is_some, and the value.
has_prefix(arg, c) == Len(arg) >= 1 /\ arg[1] = c
has_suffix(arg, c) == Len(arg) >= 1 /\ arg[Len(arg)] = c
strip_prefix(arg) == SubSeq(arg, 2, Len(arg))
strip_suffix(arg) == SubSeq(arg, 1, Len(arg) - 1)

NoSeperator == "none"

\* One pass of `for arg in message.split(' ')` over the locals of
\* parse_arguments.
parse_step(st, arg) ==
  IF st.current_seperator # NoSeperator
  THEN IF has_suffix(arg, st.current_seperator)
       THEN [arguments |-> Append(st.arguments,
                                  st.current_arg \o <<" ">> \o strip_suffix(arg)),
             current_arg |-> << >>,
             current_seperator |-> NoSeperator]
       ELSE [st EXCEPT !.current_arg = @ \o <<" ">> \o arg]
  ELSE IF has_prefix(arg, "'")
       THEN IF has_suffix(strip_prefix(arg), "'")
            THEN [st EXCEPT !.arguments = Append(@, strip_suffix(strip_prefix(arg)))]
            ELSE [st EXCEPT !.current_seperator = "'",
                            !.current_arg = @ \o strip_prefix(arg)]
       ELSE IF has_prefix(arg, "\"")
       THEN IF has_suffix(strip_prefix(arg), "\"")
            THEN [st EXCEPT !.arguments = Append(@, strip_suffix(strip_prefix(arg)))]
            ELSE [st EXCEPT !.current_seperator = "\"",
                            !.current_arg = @ \o strip_prefix(arg)]
       ELSE [st EXCEPT !.arguments = Append(@, arg)]

RECURSIVE parse_loop(_, _)
parse_loop(st, args) ==
  IF args = << >> THEN st
  ELSE parse_loop(parse_step(st, Head(args)), Tail(args))

\* Vec::retain(|arg| !arg.is_empty())
RECURSIVE retain_non_empty(_)
retain_non_empty(arguments) ==
  IF arguments = << >> THEN << >>
  ELSE (IF Head(arguments) = << >> THEN << >> ELSE <<Head(arguments)>>)
         \o retain_non_empty(Tail(arguments))

\* parse_arguments without its final retain.
parse_arguments_unfiltered(message) ==
  parse_loop([arguments |-> << >>, current_arg |-> << >>,
              current_seperator |-> NoSeperator], split(message)).arguments

parse_arguments(message) ==
  retain_non_empty(
    parse_loop([arguments |-> << >>, current_arg |-> << >>,
                current_seperator |-> NoSeperator], split(message)).arguments)

VARIABLES
  clock,      \* OffsetDateTime::now_utc(), in ticks
  joined,     \* rooms client.get_joined_room resolves
  feeds,      \* feeds[url]: entries the feed URL currently serves
  inbox,      \* inbox[user]: notifications Github holds, newest first
  subs,       \* subs[kind]: documents of the subscription collection
  nextId,     \* nextId[kind]: next document id of the collection
  clients,    \* IntervalState.clients: (room, user) -> Github client
  signals,    \* signals[room, user]: the last X-Poll-Interval answer, when, and to which token
  timers,     \* rss_interval and github_interval of intervals(), or NoTimers
  cyc,        \* the running interval function and its locals, or Idle
  hs,         \* command handlers in flight
  budget,     \* remaining cycles and commands
  sub_log,    \* what the last finished subscription of a cycle did
  cycle_log,  \* what the last finished cycle did
  stable,     \* stable[kind]: the last cycle of the kind succeeded and nothing
              \* has happened since its first fetch was answered
  parsed      \* the text of a message, and what parse_arguments returned for it

vars == <<clock, joined, feeds, inbox, subs, nextId, clients, signals, timers, cyc, hs,
          budget,
          sub_log, cycle_log, stable, parsed>>

NoSubLog == [kind |-> "none", outcome |-> "none"]
NoCycleLog == [kind |-> "none"]
HIdle == [pc |-> "idle"]

\* A collection as an earlier run of the bot left it: one subscription per
\* room for the first n rooms, each with the watermark w.
RoomAt(n) == IF n = 1 THEN "r1" ELSE "r2"
Persisted(k, n, w) ==
  {[id |-> m, room |-> RoomAt(m), key |-> CHOOSE key \in Keys(k) : TRUE,
    token |-> CHOOSE t \in TokensOf(k) : TRUE, latest_update |-> w,
    rev |-> 0] : m \in 1..n}

\* The bot starts at tick 1 on the collections of an earlier run, which hold
\* subscriptions of one kind.
Init ==
  /\ clock = 1
  /\ joined = Rooms
  /\ feeds = [u \in Urls |-> << >>]
  /\ inbox = [u \in GithubUsers |-> << >>]
  /\ \E k \in Kinds, n \in 1..Cardinality(Rooms), w \in 0..1 :
       /\ subs = [x \in Kinds |-> IF x = k THEN Persisted(k, n, w) ELSE {}]
       /\ nextId = [x \in Kinds |-> IF x = k THEN n + 1 ELSE 1]
  /\ clients = [p \in Rooms \X GithubUsers |-> NoClient]
  /\ signals = [p \in Rooms \X GithubUsers |-> NoSignal]
  /\ timers = NoTimers
  /\ cyc = Idle
  /\ hs = [h \in 1..MaxHandlers |-> HIdle]
  /\ budget = [cycles |-> MaxCycles, commands |-> 0, events |-> MaxEvents]
  /\ sub_log = NoSubLog
  /\ cycle_log = NoCycleLog
  /\ stable = [k \in Kinds |-> FALSE]
  /\ parsed = NoMessage

\* The bot starts on empty collections, one tick before the last tick.
InitCommands ==
  /\ clock = MaxTime - 1
  /\ joined = Rooms
  /\ feeds = [u \in Urls |-> << >>]
  /\ inbox = [u \in GithubUsers |-> << >>]
  /\ subs = [k \in Kinds |-> {}]
  /\ nextId = [k \in Kinds |-> 1]
  /\ clients = [p \in Rooms \X GithubUsers |-> NoClient]
  /\ signals = [p \in Rooms \X GithubUsers |-> NoSignal]
  /\ timers = NoTimers
  /\ cyc = Idle
  /\ hs = [h \in 1..MaxHandlers |-> HIdle]
  /\ budget = [cycles |-> MaxCycles, commands |-> MaxCommands, events |-> 0]
  /\ sub_log = NoSubLog
  /\ cycle_log = NoCycleLog
  /\ stable = [k \in Kinds |-> FALSE]
  /\ parsed = NoMessage

\* The bot starts at tick t on the collections of an earlier run; run() has
\* just entered intervals(), which created both timers. Nothing is published
\* and the cycles are not counted: the timers pace them.
ScheduleAt(t) ==
  /\ clock = t
  /\ joined = Rooms
  /\ feeds = [u \in Urls |-> << >>]
  /\ inbox = [u \in GithubUsers |-> << >>]
  /\ \E k \in Kinds, n \in 1..Cardinality(Rooms) :
       /\ subs = [x \in Kinds |-> IF x = k THEN Persisted(k, n, 0) ELSE {}]
       /\ nextId = [x \in Kinds |-> IF x = k THEN n + 1 ELSE 1]
  /\ clients = [p \in Rooms \X GithubUsers |-> NoClient]
  /\ signals = [p \in Rooms \X GithubUsers |-> NoSignal]
  /\ timers = new_intervals(t)
  /\ cyc = Idle
  /\ hs = [h \in 1..MaxHandlers |-> HIdle]
  /\ budget = [cycles |-> None, commands |-> 0, events |-> 0]
  /\ sub_log = NoSubLog
  /\ cycle_log = NoCycleLog
  /\ stable = [k \in Kinds |-> FALSE]
  /\ parsed = NoMessage

InitSchedule == ScheduleAt(0)

\* The bot starts one tick before the last tick.
InitRestart == ScheduleAt(MaxTime - 1)

\* ------------------------------------------------------------ environment
\* Anything that happens outside the running cycle ends the quiet period
\* that follows a successful cycle: a cycle that started in it is no longer a
\* rerun with nothing new (quiet), and a cycle that has had a fetch answered
\* may have missed what happened (dirty).
Disturbed ==
  /\ stable' = [k \in Kinds |-> FALSE]
  /\ cyc' = IF cyc.kind # "none"
            THEN [cyc EXCEPT !.dirty = @ \/ cyc.fetched, !.quiet = FALSE]
            ELSE cyc

\* A source is followed while a subscription names it; what an unfollowed
\* source does is never seen by the bot.
Subscribed(k, key) == \E d \in subs[k] : d.key = key

\* The interval function reads the clock and the notifications only where it
\* resolves a Github subscription and where the answer to its request is
\* made, the feed only where the answer to its request is made, and the
\* joined rooms only where it resolves a subscription; a command reads the
\* clock when it starts. A change of one of them is taken at the next point
\* where it can be seen.
AtRest == cyc = Idle
SeesTime ==
  \/ AtRest
  \/ (cyc.kind = "github" /\ cyc.pc \in {"resolve", "fetch"})
  \/ budget.commands > 0
SeesFeed == AtRest \/ (cyc.kind = "rss" /\ cyc.pc = "fetch")
SeesRooms == AtRest \/ cyc.pc = "resolve"

Event ==
  /\ budget.events > 0
  /\ budget' = [budget EXCEPT !.events = @ - 1]
  /\ Disturbed

Tick ==
  /\ SeesTime
  /\ clock < MaxTime
  /\ clock' = clock + 1
  /\ Disturbed
  /\ UNCHANGED <<parsed, joined, feeds, inbox, subs, nextId, clients, signals, timers, hs, budget,
                 sub_log, cycle_log>>

\* The feed publishes an entry (feeds list the newest entry first).
Publish(u, e) ==
  /\ Subscribed("rss", u)
  /\ SeesFeed
  /\ Len(feeds[u]) < MaxFeed
  /\ feeds' = [feeds EXCEPT ![u] = <<e>> \o @]
  /\ Event
  /\ UNCHANGED <<parsed, clock, joined, inbox, subs, nextId, clients, signals, timers, hs,
                 sub_log, cycle_log>>

\* The feed drops its entries.
Retract(u) ==
  /\ Subscribed("rss", u)
  /\ SeesFeed
  /\ feeds[u] # << >>
  /\ feeds' = [feeds EXCEPT ![u] = << >>]
  /\ Event
  /\ UNCHANGED <<parsed, clock, joined, inbox, subs, nextId, clients, signals, timers, hs,
                 sub_log, cycle_log>>

\* Github records a notification for the user, stamped with the current second.
Notify(u) ==
  /\ Subscribed("github", u)
  /\ SeesTime
  /\ Len(inbox[u]) < MaxNotif
  /\ inbox' = [inbox EXCEPT ![u] =
                 <<[id |-> Len(@) + 1, updated_at |-> unix_timestamp(clock)]>> \o @]
  /\ Event
  /\ UNCHANGED <<parsed, clock, joined, feeds, subs, nextId, clients, signals, timers, hs,
                 sub_log, cycle_log>>

\* The bot leaves a room (leave command, or the room became empty).
LeaveRoom(r) ==
  /\ SeesRooms
  /\ r \in joined
  /\ joined' = joined \ {r}
  /\ Event
  /\ UNCHANGED <<parsed, clock, feeds, inbox, subs, nextId, clients, signals, timers, hs,
                 sub_log, cycle_log>>

\* ------------------------------------------------------- interval cycles
\* The subscription the for loop of the interval function is at.
Sub == cyc.subscriptions[cyc.i]

item_time(k, item) ==
  IF k = "rss" THEN effective_timestamp(item) ELSE item.updated_at

\* Where the loop body goes after the fetch, and after a message was sent:
\* send_feed_messages / send_notification_messages run to their end before
\* latest_update is assigned and update_async is called.
pc_after_fetch(batch) == IF batch = << >> THEN "update" ELSE "send"
\* The loop body, were it to store latest_update after the first message.
pc_after_first_send(batch, sent) == IF Len(sent) >= 1 THEN "update" ELSE "send"
pc_after_send(batch, sent) == IF Len(sent) = Len(batch) THEN "update" ELSE "send"

Running(k, listed) ==
  [kind |-> k, subscriptions |-> listed, i |-> 1, pc |-> "resolve",
   now |-> None, feed |-> << >>, batch |-> << >>, sent |-> << >>,
   status |-> "-", fetched |-> FALSE, dirty |-> FALSE, quiet |-> stable[k],
   orphans |-> {d.id : d \in {x \in subs[k] : x.room \notin joined}}]

\* reached: how far into the listed subscriptions the for loop came.
CycleLog(k, listed, reached, result, why, orphans) ==
  [kind |-> k, listed |-> listed, reached |-> reached, result |-> result,
   why |-> why, orphans |-> orphans]

SubLog(outcome, latest_update) ==
  [kind |-> cyc.kind, id |-> Sub.id, room |-> Sub.room, key |-> Sub.key,
   T |-> Sub.latest_update, outcome |-> outcome, fetched |-> Len(cyc.batch),
   sent |-> cyc.sent, latest_update |-> latest_update]

\* The loop body ended for this subscription: next one, or return Ok(()).
EndOfSub(outcome, latest_update) ==
  LET last == cyc.i = Len(cyc.subscriptions) IN
  /\ cyc' = IF last THEN Idle
            ELSE [cyc EXCEPT !.i = @ + 1, !.pc = "resolve", !.now = None, !.status = "-",
                             !.feed = << >>, !.batch = << >>, !.sent = << >>]
  /\ sub_log' = SubLog(outcome, latest_update)
  /\ cycle_log' = IF last
                  THEN CycleLog(cyc.kind, Len(cyc.subscriptions),
                                Len(cyc.subscriptions), "ok", "-", cyc.orphans)
                  ELSE cycle_log
  /\ stable' = IF last THEN [stable EXCEPT ![cyc.kind] = ~cyc.dirty] ELSE stable
  /\ UNCHANGED timers

\* A `?` returned the error, were run() to return on it: no timer is awaited
\* any more.
AbortEnding(why) ==
  /\ cyc' = Idle
  /\ sub_log' = SubLog("failed", None)
  /\ cycle_log' = CycleLog(cyc.kind, Len(cyc.subscriptions), cyc.i, "err",
                           why, cyc.orphans)
  /\ stable' = [stable EXCEPT ![cyc.kind] = FALSE]
  /\ timers' = IF timers = NoTimers THEN NoTimers
               ELSE [timers EXCEPT !.due = [k \in Kinds |-> MaxTime + 1]]

\* A `?` returned the error: the interval function ends, run() logs it and
\* calls intervals() again.
Abort(why) ==
  /\ cyc' = Idle
  /\ sub_log' = SubLog("failed", None)
  /\ cycle_log' = CycleLog(cyc.kind, Len(cyc.subscriptions), cyc.i, "err",
                           why, cyc.orphans)
  /\ stable' = [stable EXCEPT ![cyc.kind] = FALSE]
  /\ timers' = IF timers = NoTimers THEN NoTimers ELSE new_intervals(clock)

\* The loop of intervals() is at its select!, awaiting both timers.
at_select_always == TRUE
at_select == cyc = Idle

\* interval.tick() is ready.
tick_ready(k) == IF timers = NoTimers THEN TRUE ELSE timers.due[k] <= clock

\* The timers after the tick of kind k was taken.
after_tick(k) ==
  IF timers = NoTimers THEN NoTimers
  ELSE [timers EXCEPT
          !.due[k] = next_timeout(@, clock, period(k)),
          !.late[k] = (clock - timers.due[k]) \div period(k)]

\* A timer of the select loop fires: the interval function lists its
\* collection once. budget.cycles = None: the cycles are not counted.
Begin(k) ==
  /\ at_select
  /\ tick_ready(k)
  /\ budget.cycles # 0
  /\ budget' = [budget EXCEPT !.cycles = IF @ = None THEN None ELSE @ - 1]
  /\ timers' = after_tick(k)
  /\ LET listed == all_async(subs[k]) IN
       /\ cyc' = IF listed = << >> THEN Idle ELSE Running(k, listed)
       /\ cycle_log' = IF listed = << >>
                       THEN CycleLog(k, 0, 0, "ok", "-", {}) ELSE cycle_log
       /\ stable' = IF listed = << >> THEN [stable EXCEPT ![k] = TRUE] ELSE stable
  /\ UNCHANGED <<parsed, clock, joined, feeds, inbox, subs, nextId, clients, signals, hs, sub_log>>

rss_interval_tick == Begin("rss")

github_interval_tick == Begin("github")

\* else branch of get_joined_room: subscription.delete_async.
DeleteOrphan ==
  IF header_matches(subs[cyc.kind], Sub)
  THEN /\ subs' = [subs EXCEPT ![cyc.kind] = delete_async(@, Sub)]
       /\ EndOfSub("deleted", None)
  ELSE /\ Abort("store")
       /\ UNCHANGED subs

\* The write of the watermark, were update_async to insert a document that
\* is not in the collection any more.
StoreWatermarkUpserting(latest_update) ==
  /\ subs' = [subs EXCEPT ![cyc.kind] =
                update_async(@, Sub, latest_update, Sub.token)]
  /\ EndOfSub("updated", latest_update)

\* subscription.update_async with the new latest_update.
StoreWatermark(latest_update) ==
  IF header_matches(subs[cyc.kind], Sub)
  THEN /\ subs' = [subs EXCEPT ![cyc.kind] =
                     update_async(@, Sub, latest_update, Sub.token)]
       /\ EndOfSub("updated", latest_update)
  ELSE /\ Abort("store")
       /\ UNCHANGED subs

RssResolve ==
  /\ cyc.kind = "rss"
  /\ cyc.pc = "resolve"
  /\ IF Sub.room \in joined
     THEN /\ cyc' = [cyc EXCEPT !.pc = "fetch"]
          /\ UNCHANGED <<subs, timers, sub_log, cycle_log, stable>>
     ELSE DeleteOrphan
  /\ UNCHANGED <<parsed, clock, joined, feeds, inbox, nextId, clients, signals, hs, budget>>

RssFetched ==
  /\ cyc.kind = "rss"
  /\ cyc.pc = "fetch"
  /\ LET feed == feeds[Sub.key]
         batch == new_entries(feed, Sub.latest_update)
     IN cyc' = [cyc EXCEPT !.feed = feed, !.batch = batch, !.fetched = TRUE,
                           !.pc = pc_after_fetch(batch)]
  /\ UNCHANGED <<parsed, clock, joined, feeds, inbox, subs, nextId, clients, signals, timers, hs, budget,
                 sub_log, cycle_log, stable>>

RssUpdate ==
  /\ cyc.kind = "rss"
  /\ cyc.pc = "update"
  /\ StoreWatermark(get_latest_entry(cyc.feed))
  /\ UNCHANGED <<parsed, clock, joined, feeds, inbox, nextId, clients, signals, hs, budget>>

\* IntervalState::get_client: the cached client, or a new one; set_token.
\* The key of the pool, were it the user alone: one client for all rooms.
client_key_of_user(room, user) == <<CHOOSE r \in Rooms : TRUE, user>>

\* The key of IntervalState.clients: HashMap<(OwnedRoomId, String), Github>.
client_key(room, user) == <<room, user>>

\* A pool that builds a new client whenever the token changed.
get_client_replacing(pool, room, user, token) ==
  IF pool[client_key(room, user)] = NoClient \/ pool[client_key(room, user)].token # token
  THEN [token |-> token, allowed_request_time |-> 0]
  ELSE pool[client_key(room, user)]

\* IntervalState::get_client: entry(..).or_insert(new_client), then set_token.
get_client(pool, room, user, token) ==
  IF pool[client_key(room, user)] = NoClient
  THEN [token |-> token, allowed_request_time |-> 0]
  ELSE [pool[client_key(room, user)] EXCEPT !.token = token]

\* The `continue`, were it to store the time of the cycle as the watermark.
SkipStoringWatermark == StoreWatermark(clock)

\* `if !client.next_request_allowed() { continue; }`
SkipSubscription ==
  /\ EndOfSub("skipped", None)
  /\ UNCHANGED subs

GithubResolve ==
  /\ cyc.kind = "github"
  /\ cyc.pc = "resolve"
  /\ IF Sub.room \in joined
     THEN LET github_client == get_client(clients, Sub.room, Sub.key, Sub.token) IN
          /\ clients' = [clients EXCEPT ![client_key(Sub.room, Sub.key)] = github_client]
          /\ IF ~next_request_allowed(github_client, clock)
             THEN SkipSubscription
             ELSE /\ cyc' = [cyc EXCEPT !.pc = "fetch", !.now = clock]
                  /\ UNCHANGED <<subs, timers, sub_log, cycle_log, stable>>
     ELSE /\ DeleteOrphan
          /\ UNCHANGED clients
  /\ UNCHANGED <<parsed, clock, joined, feeds, inbox, nextId, signals, hs, budget>>

\* The statuses Github answers the notifications request with.
Statuses == {"OK", "NOT_MODIFIED", "FORBIDDEN"}

\* error_for_status, were it to let nothing but 200 OK pass.
error_for_any_but_ok(status) == status # "OK"

\* Response::error_for_status: Err for a client or server error status.
error_for_status(status) == status = "FORBIDDEN"

\* What notifications returns for an answer that passed error_for_status:
\* Ok(vec![]) for 304 Not Modified, else the entries of the body.
notifications_entries(status, body) ==
  IF status = "NOT_MODIFIED" THEN << >> ELSE body

\* Github answers the notifications request, with or without X-Poll-Interval.
\* It answers 304 only when nothing was modified since If-Modified-Since.
GithubFetched(poll_interval, status) ==
  /\ cyc.kind = "github"
  /\ cyc.pc = "fetch"
  /\ LET body == updated_after(inbox[Sub.key], fetch_since(Sub)) IN
       /\ status = "NOT_MODIFIED" => body = << >>
       /\ IF error_for_status(status)
          THEN /\ Abort(status)
               /\ UNCHANGED <<clients, signals>>
          ELSE /\ LET batch == notifications_entries(status, body)
                  IN cyc' = [cyc EXCEPT !.batch = batch, !.fetched = TRUE,
                                        !.status = status,
                                        !.pc = pc_after_fetch(batch)]
               /\ clients' =
                    IF poll_interval = None THEN clients
                    ELSE [clients EXCEPT ![client_key(Sub.room, Sub.key)].allowed_request_time =
                            wait_until(clock, poll_interval)]
               /\ signals' =
                    IF poll_interval = None THEN signals
                    ELSE [signals EXCEPT ![<<Sub.room, Sub.key>>] =
                            [at |-> clock, seconds |-> poll_interval,
                             token |-> clients[client_key(Sub.room, Sub.key)].token]]
               /\ UNCHANGED <<timers, sub_log, cycle_log, stable>>
  /\ UNCHANGED <<parsed, clock, joined, feeds, inbox, subs, nextId, hs, budget>>

GithubUpdate ==
  /\ cyc.kind = "github"
  /\ cyc.pc = "update"
  /\ StoreWatermark(github_new_latest_update(cyc.now, cyc.batch))
  /\ UNCHANGED <<parsed, clock, joined, feeds, inbox, nextId, clients, signals, hs, budget>>

\* A failed request, were the cycle to put back the documents it listed.
FetchFailedRollingBack ==
  /\ cyc.kind # "none"
  /\ cyc.pc = "fetch"
  /\ Abort("fetch")
  /\ subs' = [subs EXCEPT ![cyc.kind] =
               {cyc.subscriptions[j] : j \in 1..Len(cyc.subscriptions)}]
  /\ UNCHANGED <<parsed, clock, joined, feeds, inbox, nextId, clients, signals, hs, budget>>

\* A failed request, were it to remove the subscription.
FetchFailedRemoving ==
  /\ cyc.kind # "none"
  /\ cyc.pc = "fetch"
  /\ Abort("fetch")
  /\ subs' = [subs EXCEPT ![cyc.kind] = delete_async(@, Sub)]
  /\ UNCHANGED <<parsed, clock, joined, feeds, inbox, nextId, clients, signals, hs, budget>>

\* The request, or parsing its answer, fails.
FetchFailed ==
  /\ cyc.kind # "none"
  /\ cyc.pc = "fetch"
  /\ Abort("fetch")
  /\ UNCHANGED <<parsed, clock, joined, feeds, inbox, subs, nextId, clients, signals, hs, budget>>

\* room.send succeeds for the next item of the batch.
Send ==
  /\ cyc.kind # "none"
  /\ cyc.pc = "send"
  /\ LET sent == Append(cyc.sent, cyc.batch[Len(cyc.sent) + 1])
     IN cyc' = [cyc EXCEPT !.sent = sent, !.pc = pc_after_send(cyc.batch, sent)]
  /\ UNCHANGED <<parsed, clock, joined, feeds, inbox, subs, nextId, clients, signals, timers, hs, budget,
                 sub_log, cycle_log, stable>>

\* Rendering or room.send fails for the next item of the batch.
SendFailed ==
  /\ cyc.kind # "none"
  /\ cyc.pc = "send"
  /\ Abort("send")
  /\ UNCHANGED <<parsed, clock, joined, feeds, inbox, subs, nextId, clients, signals, hs, budget>>

\* The failing update_async, were run() to build a new State for every call
\* of intervals().
StoreFailedDroppingState ==
  /\ cyc.kind # "none"
  /\ cyc.pc = "update"
  /\ Abort("store")
  /\ clients' = [p \in Rooms \X GithubUsers |-> NoClient]
  /\ UNCHANGED <<parsed, clock, joined, feeds, inbox, subs, nextId, signals, hs, budget>>

\* The store is unavailable: update_async returns an error.
StoreFailed ==
  /\ cyc.kind # "none"
  /\ cyc.pc = "update"
  /\ Abort("store")
  /\ UNCHANGED <<parsed, clock, joined, feeds, inbox, subs, nextId, clients, signals, hs, budget>>

\* Ctrl-C releases the stop barrier and run() of the bot returns: the runtime
\* is dropped and the task of intervals::run ends at the await it is at.
\* run and intervals take no signal and their loops have no exit of their own.
Stopped == [kind |-> "none", pc |-> "stopped"]

Stop ==
  /\ cyc # Stopped
  /\ cyc' = Stopped
  /\ UNCHANGED <<parsed, clock, joined, feeds, inbox, subs, nextId, clients, signals, timers, hs, budget,
                 sub_log, cycle_log, stable>>

\* ---------------------------------------------------------------- commands
Handler(cmd, k, room, key, token, sender, probe_ok) ==
  [pc |-> "find", cmd |-> cmd, kind |-> k, room |-> room, key |-> key,
   token |-> token, latest_update |-> clock, current |-> NoDoc,
   sender |-> sender, probe_ok |-> probe_ok]

\* execute returns for a sender that is neither admin nor mod, or is about to
\* reply that the token or the URL is not valid.
Refused(cmd, k, sender, probe_ok) ==
  [pc |-> "refused", cmd |-> cmd, kind |-> k, sender |-> sender,
   probe_ok |-> probe_ok]

\* The matrix client hands a command to the first free handler.
FreeHandler(h) ==
  /\ hs[h] = HIdle
  /\ \A g \in 1..(h - 1) : hs[g] # HIdle

\* SubCommand::Enable up to the construction of the new subscription: the
\* sender must be admin or mod and the probe of the source must succeed.
Enable(h, k, room, key, token, sender, probe_ok) ==
  /\ FreeHandler(h)
  /\ budget.commands > 0
  /\ room \in joined
  /\ budget' = [budget EXCEPT !.commands = @ - 1]
  /\ hs' = IF is_mod(sender) /\ probe_ok
           THEN [hs EXCEPT ![h] = Handler("enable", k, room, key, token, sender, probe_ok)]
           ELSE [hs EXCEPT ![h] = Refused("enable", k, sender, probe_ok)]
  /\ UNCHANGED <<parsed, clock, joined, feeds, inbox, subs, nextId, clients, signals, timers, cyc,
                 sub_log, cycle_log, stable>>

\* SubCommand::Disable up to the call of find.
Disable(h, k, room, key, sender) ==
  /\ FreeHandler(h)
  /\ budget.commands > 0
  /\ room \in joined
  /\ budget' = [budget EXCEPT !.commands = @ - 1]
  /\ hs' = IF is_mod(sender)
           THEN [hs EXCEPT ![h] = Handler("disable", k, room, key, "-", sender, FALSE)]
           ELSE [hs EXCEPT ![h] = Refused("disable", k, sender, FALSE)]
  /\ UNCHANGED <<parsed, clock, joined, feeds, inbox, subs, nextId, clients, signals, timers, cyc,
                 sub_log, cycle_log, stable>>

\* The refused command ends: execute returns Ok(()) for a sender without the
\* right, or after the reply that the probe failed.
Reply(h) ==
  /\ hs[h].pc = "refused"
  /\ hs' = [hs EXCEPT ![h] = HIdle]
  /\ UNCHANGED <<parsed, clock, joined, feeds, inbox, subs, nextId, clients, signals, timers, cyc, budget,
                 sub_log, cycle_log, stable>>

\* Self::find answers (the view query of for_room).
Find(h) ==
  /\ hs[h].pc = "find"
  /\ LET current == find(subs[hs[h].kind], hs[h].room, hs[h].key) IN
       hs' = IF hs[h].cmd = "disable" /\ current = NoDoc
             THEN [hs EXCEPT ![h] = HIdle]
             ELSE [hs EXCEPT ![h].pc = "write", ![h].current = current]
  /\ UNCHANGED <<parsed, clock, joined, feeds, inbox, subs, nextId, clients, signals, timers, cyc, budget,
                 sub_log, cycle_log, stable>>

\* The write that follows find: update_async or push_into_async for insert,
\* delete_async for Disable. A stale header makes the store refuse.
Write(h) ==
  /\ hs[h].pc = "write"
  /\ LET w == hs[h]
         docs == subs[w.kind]
     IN /\ subs' =
             [subs EXCEPT ![w.kind] =
                IF w.current = NoDoc
                THEN push_into_async(docs, nextId[w.kind], w.room, w.key,
                                     w.token, w.latest_update)
                ELSE IF ~header_matches(docs, w.current) THEN docs
                ELSE IF w.cmd = "enable"
                THEN update_async(docs, w.current, w.latest_update, w.token)
                ELSE delete_async(docs, w.current)]
        /\ nextId' = IF w.current = NoDoc
                     THEN [nextId EXCEPT ![w.kind] = @ + 1] ELSE nextId
  /\ hs' = [hs EXCEPT ![h] = HIdle]
  /\ Disturbed
  /\ UNCHANGED <<parsed, clock, joined, feeds, inbox, clients, signals, timers, budget, sub_log, cycle_log>>

\* RssSubscription::for_room: the documents of the room, a BTreeMap by
\* document id.
for_room(docs, room) == all_async({d \in docs : d.room = room})

Clearing(room, sender) ==
  [pc |-> "for_room", cmd |-> "clear", kind |-> "rss", room |-> room,
   sender |-> sender, listed |-> << >>]

\* SubCommand::Clear up to the call of for_room.
Clear(h, room, sender) ==
  /\ FreeHandler(h)
  /\ budget.commands > 0
  /\ room \in joined
  /\ budget' = [budget EXCEPT !.commands = @ - 1]
  /\ hs' = IF is_mod(sender)
           THEN [hs EXCEPT ![h] = Clearing(room, sender)]
           ELSE [hs EXCEPT ![h] = Refused("clear", "rss", sender, FALSE)]
  /\ UNCHANGED <<parsed, clock, joined, feeds, inbox, subs, nextId, clients, signals, timers, cyc,
                 sub_log, cycle_log, stable>>

\* for_room answers: the loop of Clear runs over the documents it lists.
ForRoom(h) ==
  /\ hs[h].pc = "for_room"
  /\ LET listed == for_room(subs["rss"], hs[h].room) IN
       hs' = IF listed = << >>
             THEN [hs EXCEPT ![h] = HIdle]
             ELSE [hs EXCEPT ![h].pc = "delete", ![h].listed = listed]
  /\ UNCHANGED <<parsed, clock, joined, feeds, inbox, subs, nextId, clients, signals, timers, cyc, budget,
                 sub_log, cycle_log, stable>>

\* One delete_async of the loop of Clear. A stale header makes the store
\* refuse, and the `?` ends the command.
DeleteNext(h) ==
  /\ hs[h].pc = "delete"
  /\ LET doc == Head(hs[h].listed)
         ok == header_matches(subs["rss"], doc)
     IN /\ subs' = IF ok THEN [subs EXCEPT !["rss"] = delete_async(@, doc)]
                  ELSE subs
        /\ hs' = IF ok /\ Len(hs[h].listed) > 1
                 THEN [hs EXCEPT ![h].listed = Tail(@)]
                 ELSE [hs EXCEPT ![h] = HIdle]
  /\ Disturbed
  /\ UNCHANGED <<parsed, clock, joined, feeds, inbox, nextId, clients, signals, timers, budget, sub_log, cycle_log>>

\* ------------------------------------------------------------ specification
Environment ==
  \/ Tick
  \/ \E u \in Urls, e \in Entries : Publish(u, e)
  \/ \E u \in Urls : Retract(u)
  \/ \E u \in GithubUsers : Notify(u)
  \/ \E r \in Rooms : LeaveRoom(r)

Intervals ==
  \/ rss_interval_tick
  \/ github_interval_tick
  \/ RssResolve
  \/ RssFetched
  \/ RssUpdate
  \/ GithubResolve
  \/ \E d \in PollIntervals, st \in Statuses : GithubFetched(d, st)
  \/ GithubUpdate
  \/ FetchFailed
  \/ Send
  \/ SendFailed

Commands ==
  \/ \E h \in 1..MaxHandlers, k \in Kinds, r \in Rooms, s \in Senders,
        ok \in BOOLEAN :
       \E key \in Keys(k), t \in TokensOf(k) : Enable(h, k, r, key, t, s, ok)
  \/ \E h \in 1..MaxHandlers, k \in Kinds, r \in Rooms, s \in Senders :
       \E key \in Keys(k) : Disable(h, k, r, key, s)
  \/ \E h \in 1..MaxHandlers, r \in Rooms, s \in Senders : Clear(h, r, s)
  \/ \E h \in 1..MaxHandlers : Find(h)
  \/ \E h \in 1..MaxHandlers : Write(h)
  \/ \E h \in 1..MaxHandlers : ForRoom(h)
  \/ \E h \in 1..MaxHandlers : DeleteNext(h)
  \/ \E h \in 1..MaxHandlers : Reply(h)

Next == Environment \/ Intervals

Spec == Init /\ [][Next]_vars

\* The interval functions while the sources have nothing to deliver.
SilentIntervals ==
  \/ rss_interval_tick
  \/ github_interval_tick
  \/ RssResolve
  \/ RssFetched
  \/ RssUpdate
  \/ GithubResolve
  \/ \E d \in PollIntervals, st \in Statuses : GithubFetched(d, st)
  \/ GithubUpdate
  \/ FetchFailed

NextCommands == Commands \/ Tick \/ SilentIntervals

SpecCommands == InitCommands /\ [][NextCommands]_vars

\* The select loop with its timers, on sources that have nothing to deliver.
NextSchedule == Tick \/ SilentIntervals \/ StoreFailed

SpecSchedule == InitSchedule /\ [][NextSchedule]_vars

\* A message arrives and the command handler parses its text.
InitArguments ==
  /\ clock = 0
  /\ joined = Rooms
  /\ feeds = [u \in Urls |-> << >>]
  /\ inbox = [u \in GithubUsers |-> << >>]
  /\ subs = [k \in Kinds |-> {}]
  /\ nextId = [k \in Kinds |-> 1]
  /\ clients = [p \in Rooms \X GithubUsers |-> NoClient]
  /\ signals = [p \in Rooms \X GithubUsers |-> NoSignal]
  /\ timers = NoTimers
  /\ cyc = Idle
  /\ hs = [h \in 1..MaxHandlers |-> HIdle]
  /\ budget = [cycles |-> 0, commands |-> 0, events |-> 0]
  /\ sub_log = NoSubLog
  /\ cycle_log = NoCycleLog
  /\ stable = [k \in Kinds |-> FALSE]
  /\ parsed \in [message : Messages, arguments : {<< >>}, done : {FALSE}]

ParseArguments ==
  /\ ~parsed.done
  /\ parsed' = [parsed EXCEPT !.arguments = parse_arguments(parsed.message),
                              !.done = TRUE]
  /\ UNCHANGED <<clock, joined, feeds, inbox, subs, nextId, clients, signals, timers, cyc,
                 hs, budget, sub_log, cycle_log, stable>>

NextArguments == ParseArguments

SpecArguments == InitArguments /\ [][NextArguments]_vars

\* The same loop in a process that the operator may stop at any time.
NextShutdown == NextSchedule \/ Stop

SpecShutdown == InitSchedule /\ [][NextShutdown]_vars

\* tokio::select! picks at random among the ready branches, so a timer that
\* is ready again and again is served; a cycle in flight is polled to its
\* next await.
FairSchedule ==
  /\ InitRestart
  /\ [][NextSchedule]_vars
  /\ SF_vars(rss_interval_tick)
  /\ SF_vars(github_interval_tick)
  /\ WF_vars(RssResolve)
  /\ WF_vars(RssFetched)
  /\ WF_vars(RssUpdate)
  /\ WF_vars(GithubResolve)
  /\ WF_vars(\E d \in PollIntervals, st \in Statuses : GithubFetched(d, st))
  /\ WF_vars(GithubUpdate)

\* ------------------------------------------------------------------ claims
\* C1: a poll cycle that starts for a subscription with the watermark T never
\* sends an item whose effective timestamp is at or before T; every message
\* sent for the subscription the loop is at, and every message the last
\* finished subscription sent, is later than the T the cycle listed.
C1_NoOldItemDispatched ==
  /\ cyc.kind # "none" =>
       \A n \in 1..Len(cyc.sent) :
         from_unix_timestamp(item_time(cyc.kind, cyc.sent[n])) > Sub.latest_update
  /\ sub_log.kind # "none" =>
       \A n \in 1..Len(sub_log.sent) :
         from_unix_timestamp(item_time(sub_log.kind, sub_log.sent[n])) > sub_log.T

\* An RSS cycle has sent an entry while the feed it fetched also holds a
\* dated entry at or before the watermark.
C1_Witness ==
  /\ cyc.kind = "rss"
  /\ Len(cyc.sent) >= 1
  /\ \E n \in 1..Len(cyc.feed) :
       /\ effective_timestamp(cyc.feed[n]) # None
       /\ from_unix_timestamp(effective_timestamp(cyc.feed[n])) <= Sub.latest_update

\* C2: after a subscription of a cycle sent N >= 1 messages without a send
\* failure, the stored watermark is the largest timestamp among the items
\* sent, and it is not below the watermark T the cycle started from.
C2_WatermarkIsLatestDispatched ==
  (sub_log.outcome = "updated" /\ Len(sub_log.sent) >= 1) =>
    /\ sub_log.latest_update =
         SetMax({from_unix_timestamp(item_time(sub_log.kind, sub_log.sent[n])) :
                   n \in 1..Len(sub_log.sent)})
    /\ sub_log.latest_update >= sub_log.T

\* C3: a subscription whose fetch gave no item to send keeps the watermark it
\* had: what the cycle stores equals the T it started from.
C3_EmptyFetchKeepsWatermark ==
  (sub_log.outcome = "updated" /\ sub_log.fetched = 0) =>
    sub_log.latest_update = sub_log.T

\* C4: while no Enable command runs, no step lowers the stored watermark of a
\* subscription.
C4_WatermarkNeverDecreases ==
  [][\A k \in Kinds : \A d \in subs[k] : \A e \in subs'[k] :
       e.id = d.id => e.latest_update >= d.latest_update]_vars

\* C5: a cycle in which the fetch of one subscription failed still went on to
\* every later subscription it had listed.
C5_FetchFailureContinues ==
  (cycle_log.kind # "none" /\ cycle_log.why = "fetch") =>
    cycle_log.reached = cycle_log.listed

\* C6: a subscription whose room could not be resolved when a cycle of its
\* kind started is gone from the collection when that cycle has ended.
C6_OrphanRemovedByCycle ==
  cycle_log.kind # "none" =>
    \A id \in cycle_log.orphans : \A d \in subs[cycle_log.kind] : d.id # id

\* C7: a collection never holds two documents for the same room and the same
\* identity (feed URL or Github user), whatever Enable commands and poll
\* cycles interleave.
C7_OnePerRoomAndIdentity ==
  \A k \in Kinds : \A d \in subs[k] : \A e \in subs[k] :
    (d.room = e.room /\ d.key = e.key) => d.id = e.id

C9_RerunDispatchesNothing ==
  (cyc.kind # "none" /\ cyc.quiet) => cyc.sent = << >>

\* C10: the watermark is written only after every item of the batch was
\* sent: the loop is at its update only with the whole batch sent, and while
\* an item of the batch is unsent the stored watermark of the subscription
\* is below that item.
C10_WatermarkAfterDispatch ==
  cyc.kind # "none" =>
    /\ cyc.pc = "update" => cyc.sent = cyc.batch
    /\ \A n \in (Len(cyc.sent) + 1)..Len(cyc.batch) :
         \A d \in subs[cyc.kind] :
           d.id = Sub.id =>
             d.latest_update < from_unix_timestamp(item_time(cyc.kind, cyc.batch[n]))

\* A cycle is about to write the watermark after sending a batch of two.
C10_Witness ==
  /\ cyc.kind # "none"
  /\ cyc.pc = "update"
  /\ Len(cyc.batch) >= 2
  /\ cyc.sent = cyc.batch

\* C11: when the send of one item of a batch fails, every later item of the
\* batch is still attempted: while an item after the one being sent remains,
\* the next step of the cycle leaves it sending that batch.
C11_SendFailureContinues ==
  [][(cyc.kind # "none" /\ cyc.pc = "send" /\ Len(cyc.sent) + 1 < Len(cyc.batch))
       => (cyc'.kind = cyc.kind /\ cyc'.pc = "send")]_vars

\* C12: when the send of an item fails, the cycle stores as the watermark of
\* the subscription the highest timestamp among the items it attempted (the
\* items sent and the one that failed).
C12_WatermarkAfterSendFailure ==
  [][(cyc.kind # "none" /\ cyc.pc = "send" /\ cyc' = Idle)
       => \E d \in subs'[cyc.kind] :
            /\ d.id = Sub.id
            /\ d.latest_update =
                 from_unix_timestamp(
                   SetMax({item_time(cyc.kind, cyc.batch[n]) :
                             n \in 1..(Len(cyc.sent) + 1)}))]_vars

C20_AscendingDispatch ==
  cyc.kind # "none" =>
    \A m \in 1..Len(cyc.sent) : \A n \in 1..Len(cyc.sent) :
      m < n => item_time(cyc.kind, cyc.sent[m]) <= item_time(cyc.kind, cyc.sent[n])

\* C13: an error that ends the cycle of one kind leaves the timer of the
\* other kind as it was: the other kind's next tick stays where it was due.
C13_ErrorLeavesOtherKind ==
  [][(cyc.kind # "none" /\ cyc' = Idle /\ sub_log'.outcome = "failed")
       => \A k \in Kinds \ {cyc.kind} : timers'.due[k] = timers.due[k]]_vars

\* C15: after a cycle ended on an error, a cycle of the RSS kind and a cycle
\* of the Github kind are eventually run again.
C15_RestartAfterError ==
  \A k \in Kinds :
    (cyc = Idle /\ cycle_log.kind # "none" /\ cycle_log.result = "err")
      ~> (cyc.kind = k \/ (cycle_log.kind = k /\ cycle_log.result = "ok"))

\* The loop is back at its select! after a cycle ended on a store error,
\* both timers ready.
C15_Witness ==
  /\ cyc = Idle
  /\ cycle_log.kind # "none"
  /\ cycle_log.result = "err"
  /\ cycle_log.why = "store"
  /\ \A k \in Kinds : timers.due[k] <= clock

\* C16: the first cycle after a cycle that failed on the store starts only
\* after a backoff: later than the tick of the failure, at which intervals()
\* was entered again.
C16_BackoffAfterStoreError ==
  [][(cyc = Idle /\ (\E k \in Kinds : timers'.due[k] > timers.due[k])
        /\ cycle_log.kind # "none" /\ cycle_log.why = "store")
       => clock > timers.created]_vars

\* C17: the kinds run concurrently: while a cycle of one kind is in flight,
\* a ready tick of the other kind can start that kind's cycle.
C17_KindsRunConcurrently ==
  \A k \in Kinds :
    (cyc.kind # "none" /\ cyc.kind # k /\ tick_ready(k)) => ENABLED Begin(k)

\* C18: a step that takes a tick of a kind and starts its cycle is never
\* taken while a cycle of that kind is in flight.
C18_OneCyclePerKind ==
  [][\A k \in Kinds :
       (timers'.created = timers.created /\ timers'.due[k] > timers.due[k])
         => cyc.kind # k]_vars

\* A Github cycle is in flight while the Github timer is ready again.
C18_Witness ==
  /\ cyc.kind = "github"
  /\ timers.due["github"] <= clock
  /\ timers.due["github"] > timers.created

\* C19: a step that takes a tick of a kind leaves the kind's timer at the
\* next multiple of its period after now: later than now, at most one period
\* away, on the grid the timer was created on. No second cycle can start for
\* the ticks that were missed.
C19_MissedTicksSkipped ==
  [][\A k \in Kinds :
       (timers'.created = timers.created /\ timers'.due[k] > timers.due[k])
         => /\ timers'.due[k] > clock
            /\ timers'.due[k] <= clock + period(k)
            /\ (timers'.due[k] - timers.created) % period(k) = 0]_vars

\* A Github cycle was started for a tick that was at least one whole period
\* late, and the timer is set to a later tick.
C19_Witness ==
  /\ cyc.kind = "github"
  /\ timers.late["github"] >= 1
  /\ timers.due["github"] > clock

\* C21: IntervalState::get_client is idempotent per (room, user): a client that
\* is in the pool stays in the pool, a call for its key returns that client
\* with nothing but its token replaced by the subscription's token, and the
\* client's allowed_request_time is never reset: no step lowers it.
C21_GetClientKeepsClient ==
  [][\A p \in Rooms \X GithubUsers :
       clients[p] # NoClient =>
         /\ clients'[p] # NoClient
         /\ clients'[p].allowed_request_time >= clients[p].allowed_request_time
         /\ cyc.kind = "github" /\ cyc.pc = "resolve" /\ clients'[p] # clients[p]
              => clients'[p] = [clients[p] EXCEPT !.token = Sub.token]]_vars

\* A rate-limited client was handed out again for a subscription whose token
\* had been changed: it carries the new token and its old waiting time.
C21_Witness ==
  /\ sub_log.kind = "github"
  /\ sub_log.outcome = "skipped"
  /\ LET p == <<sub_log.room, sub_log.key>> IN
       /\ signals[p] # NoSignal
       /\ clients[p].token # signals[p].token
       /\ clients[p].allowed_request_time = wait_until(signals[p].at, signals[p].seconds)
       /\ \E d \in subs["github"] : d.id = sub_log.id /\ d.token = clients[p].token

\* C22: Github::next_request_allowed answers true exactly when now is at or
\* after the client's allowed_request_time, the instant now =
\* allowed_request_time included.
C22_AllowedFromAllowedTime ==
  \A p \in Rooms \X GithubUsers :
    clients[p] # NoClient =>
      (next_request_allowed(clients[p], clock)
         <=> clock >= clients[p].allowed_request_time)

\* C23: when the pooled client of a Github subscription is not yet allowed to
\* poll, the cycle goes on to the next subscription without a request: the
\* stored records, the client's allowed_request_time and what Github last
\* answered are unchanged, nothing was fetched and no message was sent.
C23_SkipChangesNothing ==
  [][(/\ cyc.kind = "github"
      /\ cyc.pc = "resolve"
      /\ Sub.room \in joined
      /\ clients[<<Sub.room, Sub.key>>] # NoClient
      /\ ~(clients[<<Sub.room, Sub.key>>].allowed_request_time < clock)
      /\ (cyc' = Idle \/ cyc'.i # cyc.i \/ cyc'.pc # "resolve"))
     => /\ subs' = subs
        /\ signals' = signals
        /\ clients'[<<Sub.room, Sub.key>>].allowed_request_time
             = clients[<<Sub.room, Sub.key>>].allowed_request_time
        /\ cyc' = Idle \/ (cyc'.i = cyc.i + 1 /\ cyc'.pc = "resolve")
        /\ sub_log'.id = Sub.id
        /\ sub_log'.outcome = "skipped"
        /\ sub_log'.fetched = 0
        /\ sub_log'.sent = << >>]_vars

\* A subscription was skipped while Github held a notification newer than its
\* watermark: the record still has the watermark it was listed with.
C23_Witness ==
  /\ sub_log.kind = "github"
  /\ sub_log.outcome = "skipped"
  /\ sub_log.sent = << >>
  /\ clients[<<sub_log.room, sub_log.key>>].allowed_request_time >= clock
  /\ \E d \in subs["github"] :
       /\ d.id = sub_log.id
       /\ d.latest_update = sub_log.T
       /\ updated_after(inbox[d.key], fetch_since(d)) # << >>

\* C24: whenever an answer to the notifications request carried
\* X-Poll-Interval: D, the pooled client's allowed_request_time is the time of
\* that answer plus D seconds, whether the answer delivered notifications,
\* delivered none, or was 304 Not Modified.
C24_PollIntervalAlwaysApplied ==
  \A p \in Rooms \X GithubUsers :
    signals[p] # NoSignal =>
      clients[p].allowed_request_time
        = signals[p].at + signals[p].seconds * TicksPerSecond

\* A 304 Not Modified answer carrying X-Poll-Interval has just been received.
C24_Witness ==
  /\ cyc.kind = "github"
  /\ cyc.pc = "update"
  /\ cyc.status = "NOT_MODIFIED"
  /\ LET p == <<Sub.room, Sub.key>> IN
       /\ signals[p].at = clock
       /\ signals[p].seconds >= 1
       /\ clients[p].allowed_request_time > clock

\* C25: a 304 Not Modified answer is an empty list of notifications and no
\* error: no cycle ends with it as its error, and after it the loop is at the
\* update of the subscription, with an empty batch and the time it read
\* before the request as the watermark to store.
C25_NotModifiedIsEmptySuccess ==
  /\ cycle_log.kind # "none" => cycle_log.why # "NOT_MODIFIED"
  /\ (cyc.kind = "github" /\ cyc.status = "NOT_MODIFIED")
       => /\ cyc.pc = "update"
          /\ cyc.batch = << >>
          /\ cyc.fetched
          /\ cyc.now # None

\* The request for the second subscription of a cycle was answered 304 Not
\* Modified: the loop is at its update, as it was for the first, which was
\* updated.
C25_Witness ==
  /\ cyc.kind = "github"
  /\ cyc.status = "NOT_MODIFIED"
  /\ cyc.pc = "update"
  /\ cyc.i = 2
  /\ sub_log.kind = "github"
  /\ sub_log.outcome = "updated"

\* C26: the client pool never holds more clients than there are Github
\* subscriptions in the store, also after subscriptions were deleted.
C26_PoolBoundedBySubscriptions ==
  Cardinality({p \in Rooms \X GithubUsers : clients[p] # NoClient})
    <= Cardinality(subs["github"])

\* C27: a subscription record is created only by the Enable command of a
\* sender that is admin or mod and whose probe of the source succeeded; a
\* command of another sender, or one whose probe failed, ends with the store
\* as it was.
C27_CreatedOnlyForModAndValidProbe ==
  [][/\ \A k \in Kinds :
          (\E d \in subs'[k] : \A e \in subs[k] : e.id # d.id)
            => \E h \in 1..MaxHandlers :
                 /\ hs[h].pc = "write"
                 /\ hs'[h] = HIdle
                 /\ hs[h].cmd = "enable"
                 /\ hs[h].kind = k
                 /\ hs[h].sender = "admin"
                 /\ hs[h].probe_ok
     /\ \A h \in 1..MaxHandlers :
          (hs'[h].pc = "refused" \/ hs[h].pc = "refused")
            => (hs'[h] # hs[h] => subs' = subs /\ nextId' = nextId)
     /\ \A h \in 1..MaxHandlers :
          (hs[h] = HIdle /\ hs'[h].pc = "find" /\ hs'[h].cmd = "enable")
            => hs'[h].sender = "admin" /\ hs'[h].probe_ok]_vars

\* An Enable of a sender without the right, or with a failed probe, is being
\* refused while the store holds the one record an admin's Enable created.
C27_Witness ==
  /\ \E h \in 1..MaxHandlers :
       /\ hs[h].pc = "refused"
       /\ hs[h].cmd = "enable"
       /\ hs[h].sender # "admin" \/ ~hs[h].probe_ok
       /\ Cardinality(subs[hs[h].kind]) = 1
       /\ nextId[hs[h].kind] = 2
  /\ budget.commands = 0

\* C28: insert for a (room, identity) that the collection already holds
\* updates that document in place (Github: token and latest_update; RSS:
\* latest_update) and inserts nothing: the documents are the same in number
\* and every other document is unchanged. Otherwise exactly one document is
\* inserted.
C28_UpsertInPlace ==
  [][\A h \in 1..MaxHandlers :
       (hs[h].pc = "write" /\ hs[h].cmd = "enable" /\ hs'[h] = HIdle) =>
         LET w == hs[h]
             docs == subs[w.kind]
             held == {d \in docs : d.room = w.room /\ d.key = w.key}
         IN IF held # {}
            THEN /\ {d.id : d \in subs'[w.kind]} = {d.id : d \in docs}
                 /\ Cardinality(subs'[w.kind]) = Cardinality(docs)
                 /\ \A d \in docs \ held : d \in subs'[w.kind]
                 /\ \A d \in subs'[w.kind] :
                      (d.room = w.room /\ d.key = w.key)
                        => d.latest_update = w.latest_update /\ d.token = w.token
            ELSE /\ docs \subseteq subs'[w.kind]
                 /\ Cardinality(subs'[w.kind]) = Cardinality(docs) + 1]_vars

\* C29: the scheduling task ends only after the calls in flight completed:
\* when it ends, the loop is at its select and no cycle is under way.
C29_ExitsAfterInFlightCalls ==
  [][cyc' = Stopped => cyc \in {Idle, Stopped}]_vars

\* C30: parse_arguments splits the message at its spaces and returns no empty
\* argument. A piece that starts with ' or " opens a quoted argument, which
\* runs to the first piece at or after it that ends with the same character
\* (the opening character itself does not close it); the argument is the text
\* between the two quote characters, spaces included. Quote characters
\* anywhere else are text. A quoted argument that is never closed is not
\* returned, and nothing after it is.
C30_ArgumentsAsQuoted ==
  parsed.done =>
    LET message == parsed.message
        n == Len(message)
        \* q at position c ends a piece
        closes(c, q) == message[c] = q /\ (c = n \/ message[c + 1] = " ")
        \* the last position of the piece that starts at p (p - 1 if empty)
        piece_end(p) ==
          CHOOSE e \in (p - 1)..n :
            /\ e = n \/ message[e + 1] = " "
            /\ \A i \in p..e : message[i] # " "
        expected[p \in 1..(n + 3)] ==
          IF p > n + 1 THEN << >>
          ELSE IF piece_end(p) < p THEN expected[p + 1]
          ELSE IF message[p] \in {"'", "\""}
          THEN LET closers == {c \in (p + 1)..n : closes(c, message[p])} IN
               IF closers = {} THEN << >>
               ELSE LET c == CHOOSE c \in closers : \A d \in closers : c <= d
                        arg == SubSeq(message, p + 1, c - 1)
                    IN (IF arg = << >> THEN << >> ELSE <<arg>>) \o expected[c + 2]
          ELSE <<SubSeq(message, p, piece_end(p))>> \o expected[piece_end(p) + 2]
    IN /\ \A i \in 1..Len(parsed.arguments) : parsed.arguments[i] # << >>
       /\ parsed.arguments = expected[1]

\* 'a "' was parsed: the one argument is the text between the single quotes,
\* with its space and its double quote.
C30_Witness ==
  /\ parsed.done
  /\ parsed.message = <<"'", "a", " ", "\"", "'">>
  /\ parsed.arguments = << <<"a", " ", "\"">> >>

\* C31: the watermark a Github poll stores is the time the cycle read right
\* before it made the request, whatever the notifications received say, and
\* so never later than the moment of the request.
C31_GithubWatermarkIsTimeBeforeFetch ==
  [][/\ (cyc.kind = "github" /\ cyc.pc = "fetch") => cyc.now <= clock
     /\ (cyc.kind = "github" /\ cyc.pc = "update"
           /\ subs'["github"] # subs["github"] /\ hs' = hs)
          => /\ cyc.fetched
             /\ cyc.now <= clock
             /\ \E d \in subs'["github"] :
                  d.id = Sub.id /\ d.latest_update = cyc.now]_vars

\* A Github poll delivered a notification and stored a watermark that is not
\* the time of that notification.
C31_Witness ==
  /\ sub_log.kind = "github"
  /\ sub_log.outcome = "updated"
  /\ sub_log.sent # << >>
  /\ sub_log.latest_update # from_unix_timestamp(sub_log.sent[1].updated_at)
  /\ \E d \in subs["github"] :
       d.id = sub_log.id /\ d.latest_update = sub_log.latest_update

\* C32: the watermark an RSS poll stores is the greatest date (published,
\* else updated) over all dated entries of the feed it fetched, and the Unix
\* epoch when the feed has no dated entry, whatever the watermark was before
\* and whichever entries were sent.
C32_RssWatermarkIsLatestOfFeed ==
  [][(cyc.kind = "rss" /\ cyc.pc = "update"
       /\ subs'["rss"] # subs["rss"] /\ hs' = hs)
      => LET dated == {effective_timestamp(cyc.feed[i]) : i \in 1..Len(cyc.feed)}
                        \ {None}
             latest == IF dated = {} THEN 0
                       ELSE CHOOSE t \in dated : \A u \in dated : u <= t
         IN \E d \in subs'["rss"] :
              /\ d.id = Sub.id
              /\ unix_timestamp(d.latest_update) = Max(latest, 0)
              /\ d.latest_update % TicksPerSecond = 0]_vars

\* An RSS poll of a feed without a dated entry sent nothing and stored the
\* epoch over a later watermark.
C32_Witness ==
  /\ sub_log.kind = "rss"
  /\ sub_log.outcome = "updated"
  /\ sub_log.fetched = 0
  /\ sub_log.T > 0
  /\ sub_log.latest_update = 0
  /\ \E d \in subs["rss"] : d.id = sub_log.id /\ d.latest_update = 0

\* C33: a cycle that fails at its k-th subscription rolls nothing back: the
\* failing step leaves the store as it is, so the watermarks written and the
\* orphans deleted for subscriptions 1..k-1 stay; the k-th document and the
\* documents k+1.. are as the cycle listed them.
C33_NoRollbackOnFailure ==
  [][(cyc.kind # "none" /\ cyc' = Idle /\ sub_log'.outcome = "failed")
      => /\ subs' = subs
         /\ \A j \in cyc.i..Len(cyc.subscriptions) :
              cyc.subscriptions[j] \in subs'[cyc.kind]
         /\ \A j \in 1..(cyc.i - 1) :
              \/ cyc.subscriptions[j] \notin subs'[cyc.kind]
              \/ cyc.kind = "github"]_vars

\* An RSS cycle failed at its second subscription after it had stored a new
\* watermark for the first.
C33_Witness ==
  /\ cycle_log.kind = "rss"
  /\ cycle_log.result = "err"
  /\ cycle_log.reached = 2
  /\ sub_log.outcome = "failed"
  /\ cyc = Idle
  /\ \E d \in subs["rss"] : d.id = 1 /\ d.rev = 1 /\ d.latest_update > 0
  /\ \E d \in subs["rss"] : d.id = 2 /\ d.rev = 0

\* C34: the since of a Github request is the watermark the store holds for
\* the subscription, which only a successful poll (or Enable) writes, so the
\* polls leave no window uncovered: after a successful poll every
\* notification later than the previous watermark was either delivered by
\* this poll or is later than the new watermark, and so is delivered by the
\* next poll.
C34_NoWindowUncovered ==
  /\ (cyc.kind = "github" /\ cyc.pc = "fetch")
       => \E d \in subs["github"] :
            d.id = Sub.id /\ d.latest_update = fetch_since(Sub)
  /\ (sub_log.kind = "github" /\ sub_log.outcome = "updated")
       => \A d \in subs["github"] :
            (d.id = sub_log.id /\ d.latest_update = sub_log.latest_update)
              => \A i \in 1..Len(inbox[d.key]) :
                   LET n == inbox[d.key][i]
                       t == from_unix_timestamp(n.updated_at)
                   IN t > sub_log.T
                        => \/ \E m \in 1..Len(sub_log.sent) : sub_log.sent[m] = n
                           \/ t > d.latest_update

\* C35: the rate limit is kept per (room, user): a step changes no client
\* but the one of the subscription the Github cycle is at, and a client is
\* held back by nothing but the last X-Poll-Interval answer to a request for
\* its own room, so the answer for one room never makes the same user's
\* client of another room wait.
C35_RateLimitPerRoomAndUser ==
  [][/\ \A q \in Rooms \X GithubUsers :
          clients'[q] # clients[q]
            => cyc.kind = "github" /\ q = <<Sub.room, Sub.key>>
     /\ \A q \in Rooms \X GithubUsers :
          clients[q] # NoClient
            => clients[q].allowed_request_time
                 = signals[q].at + signals[q].seconds * TicksPerSecond]_vars

\* A request for a user is in flight for one room while the waiting time that
\* Github gave for the same user in another room has not passed.
C35_Witness ==
  /\ cyc.kind = "github"
  /\ cyc.pc = "fetch"
  /\ \E q \in Rooms \X GithubUsers :
       /\ q[1] # Sub.room
       /\ q[2] = Sub.key
       /\ signals[q].seconds >= 1
       /\ clients[q].allowed_request_time > clock
       /\ cyc.now < signals[q].at + signals[q].seconds * TicksPerSecond

\* C36: the pool outlives the calls of intervals(): every client Github gave a
\* waiting time to is still in the pool with that time, and the cycle that
\* runs after a cycle that ended with an error sends no request for a
\* subscription whose waiting time has not passed.
C36_PoolSurvivesRestart ==
  /\ \A q \in Rooms \X GithubUsers :
       signals[q] # NoSignal
         => /\ clients[q] # NoClient
            /\ clients[q].allowed_request_time
                 = signals[q].at + signals[q].seconds * TicksPerSecond
  /\ (/\ cycle_log.kind # "none"
      /\ cycle_log.result = "err"
      /\ cyc.kind = "github"
      /\ cyc.pc = "fetch")
       => LET q == <<Sub.room, Sub.key>>
          IN  signals[q].at + signals[q].seconds * TicksPerSecond <= cyc.now

\* The cycle before ended with an error, and the cycle after the restart has
\* skipped its first subscription, whose waiting time is still running.
C36_Witness ==
  /\ cycle_log.kind # "none"
  /\ cycle_log.result = "err"
  /\ cyc.kind = "github"
  /\ cyc.i = 2
  /\ sub_log.kind = "github"
  /\ sub_log.outcome = "skipped"
  /\ LET q == <<sub_log.room, sub_log.key>>
     IN  /\ signals[q].seconds >= 1
         /\ clients[q].allowed_request_time > clock

\* C37: a step that is not a step of a command puts no record into the store
\* for a (room, identity) that has none: the cycle that listed a subscription
\* which Disable or Clear removed since never writes it back, whether it
\* ends normally or with an error.
C37_RemovedIsNotResurrected ==
  [][hs' = hs
       => \A k \in Kinds, r \in Rooms :
            \A key \in Keys(k) :
              find(subs[k], r, key) = NoDoc => find(subs'[k], r, key) = NoDoc]_vars

\* A cycle came to the write of a subscription it had listed and that a
\* command removed meanwhile: it ended with the error of the store, and the
\* store has no record for the room and identity.
C37_Witness ==
  /\ cyc = Idle
  /\ \A h \in 1..MaxHandlers : hs[h] = HIdle
  /\ cycle_log.kind # "none"
  /\ cycle_log.result = "err"
  /\ cycle_log.why = "store"
  /\ sub_log.outcome = "failed"
  /\ find(subs[sub_log.kind], sub_log.room, sub_log.key) = NoDoc

\* C38: the entries that send_feed_messages dispatches are those of the
\* fetched feed whose published date, or whose updated date when they have no
\* published date, is later than the watermark: none of them is undated, and
\* none has a published date at or before the watermark, whatever its updated
\* date is.
C38_PublishedElseUpdated ==
  (cyc.kind = "rss" /\ cyc.pc \in {"send", "update"})
    => LET T == Sub.latest_update
           later(s) == from_unix_timestamp(s) > T
       IN  /\ cyc.batch
                = SelectSeq(cyc.feed,
                    LAMBDA e : IF e.published # None THEN later(e.published)
                               ELSE e.updated # None /\ later(e.updated))
           /\ Len(cyc.sent) <= Len(cyc.batch)
           /\ \A i \in 1..Len(cyc.sent) :
                /\ cyc.sent[i] = cyc.batch[i]
                /\ cyc.sent[i].published # None \/ cyc.sent[i].updated # None
                /\ cyc.sent[i].published # None => later(cyc.sent[i].published)

\* The fetched feed holds an undated entry and an entry published at or
\* before the watermark and updated after it; nothing is dispatched.
C38_Witness ==
  /\ cyc.kind = "rss"
  /\ cyc.pc = "update"
  /\ cyc.sent = << >>
  /\ \E i, j \in 1..Len(cyc.feed) :
       /\ cyc.feed[i].published = None
       /\ cyc.feed[i].updated = None
       /\ cyc.feed[j].published # None
       /\ cyc.feed[j].updated # None
       /\ from_unix_timestamp(cyc.feed[j].published) <= Sub.latest_update
       /\ from_unix_timestamp(cyc.feed[j].updated) > Sub.latest_update

====
